---------------------------- MODULE Spec2Model ----------------------------
(***************************************************************************)
(* VoxelRaycaster (src/voxel-traverse.py): the incremental grid traversal  *)
(* of Amanatides and Woo as a Python generator, together with the grid     *)
(* dimensions it reads.                                                    *)
(*                                                                         *)
(* Numbers.  Coordinates of an origin are counted in half cells (the       *)
(* integer o stands for the float o/2), direction components are a sign    *)
(* and a magnitude in {0, 1, 2} (so that +0.0 and -0.0 are distinct), and  *)
(* ray parameters (tMax, tDelta) are counted in quarters (the integer t    *)
(* stands for the float t/4), with Inf for math.inf.  On these inputs      *)
(* every floating-point operation of cast is exact, so the integer         *)
(* arithmetic below is the arithmetic of the code.                         *)
(***************************************************************************)
EXTENDS Integers, Sequences, FiniteSets

\* Largest grid extent tried; extents range over 0..MaxDim.
MaxDim == 2

\* Largest grid extent of the tie-break casts (SpecTie); extents range over
\* 1..TieDim.
TieDim == 5

\* the largest extent of any grid tried
MaxExtent == IF TieDim > MaxDim THEN TieDim ELSE MaxDim

\* A generator is resumed only while it has yielded fewer cells than this:
\* a cast that never returns is followed this far.  Every cast that does
\* return, from an origin cell in -1..MaxExtent, yields at most
\* 2*MaxExtent+3 cells.
MaxCells == 2 * MaxExtent + 4

\* math.inf; finite ray parameters are never negative.
Inf == -1

Dims == 0..MaxDim
\* origin coordinates in half cells: the cells -1..MaxDim, at offset 0 or 1/2
Coords == -2..(2 * MaxDim + 1)
\* direction components: sign bit and magnitude
Components == [s : {1, -1}, m : {0, 1, 2}]

\* generator objects: Spec consumes one at a time (GridView.on_render)
GenIds == {1, 2}
SeqGens == {1}

VARIABLES
    width,      \* VoxelRaycaster._width
    height,     \* VoxelRaycaster._height
    gen,        \* the generator objects made by cast, by id
    lastDim,    \* history: the last call that set the dimensions, and its arguments
    view,       \* the GridView that owns the traverser
    ray_view    \* its RayView (the two handles of the ray)

vars == <<width, height, gen, lastDim, view, ray_view>>

\* No generator: cast was not called, or its generator was dropped.
NoGen ==
    [pc |-> "none", ox |-> 0, oy |-> 0,
     dirX |-> [s |-> 1, m |-> 0], dirY |-> [s |-> 1, m |-> 0],
     x |-> 0, y |-> 0, stepX |-> 0, stepY |-> 0,
     justOutX |-> 0, justOutY |-> 0,
     tMaxX |-> 0, tMaxY |-> 0, tDeltaX |-> 0, tDeltaY |-> 0,
     out |-> << >>,
     \* history: the dimensions of the grid when cast was called, and the
     \* values of self.width, self.height read at lines 45-46
     dimsAtCall |-> << >>, dimsRead |-> << >>]

\* No GridView: the traverser is used on its own.
NoView ==
    [width |-> 0, height |-> 0, drag |-> FALSE, drag_ray |-> FALSE,
     last_cursor |-> "None", x |-> 0, y |-> 0, cell_size |-> 0,
     grid_width |-> 0, grid_height |-> 0]

NoRayView == [x |-> 0, y |-> 0, dx |-> 0, dy |-> 0, start_hovered |-> FALSE]

------------------------------------------------------------------------------
(* Arithmetic of cast *)

\* int(o/2): truncation toward zero
trunc(o) == IF o >= 0 THEN o \div 2 ELSE -((-o) \div 2)

\* math.floor of the float o/2
floor(o) == o \div 2

\* the sign of d with sign(0) = 0
signum(d) == IF d.m = 0 THEN 0 ELSE d.s

\* int(copysign(1, d)): the sign bit of d, also of a zero
copysign(d) == d.s

\* d != 0
NonZero(d) == d.m # 0

\* the float (n/2) / d for a non-zero d, in quarters
FDiv(n, d) == (2 * n * d.s) \div d.m

\* a + b on floats: inf + b = inf
FAdd(a, b) == IF a = Inf \/ b = Inf THEN Inf ELSE a + b

\* a < b on floats: nothing is below a finite value but a smaller one, and
\* inf < inf is false
FLt(a, b) == a # Inf /\ (b = Inf \/ a < b)

\* bool as int
AsInt(b) == IF b THEN 1 ELSE 0

------------------------------------------------------------------------------
(* The same operations where the quotient is not a multiple of 1/4: Python's *)
(* float is IEEE 754 binary64, a significand of 53 bits rounded to nearest, *)
(* ties to even.  A natural number is the sequence of its digits in base    *)
(* Limb, least significant first, without leading zeros.  A float is        *)
(* m * 2^e with m odd, zero (m empty), or inf.                              *)

Limb == 32768
LimbBits == 15
\* bits of the significand of a binary64
Precision == 53

LimbAt(a, i) == IF i \in 1..Len(a) THEN a[i] ELSE 0

RECURSIVE BigNorm(_)
BigNorm(a) ==
    IF a = << >> THEN a
    ELSE IF a[Len(a)] = 0 THEN BigNorm(SubSeq(a, 1, Len(a) - 1))
    ELSE a

RECURSIVE BigFromInt(_)
BigFromInt(n) == IF n = 0 THEN << >> ELSE <<n % Limb>> \o BigFromInt(n \div Limb)

RECURSIVE BigAddFrom(_, _, _, _)
BigAddFrom(a, b, i, carry) ==
    IF i > Len(a) /\ i > Len(b)
    THEN IF carry = 0 THEN << >> ELSE <<carry>>
    ELSE LET sum == LimbAt(a, i) + LimbAt(b, i) + carry
         IN  <<sum % Limb>> \o BigAddFrom(a, b, i + 1, sum \div Limb)

BigAdd(a, b) == BigAddFrom(a, b, 1, 0)

\* a * 2^k
BigShl(a, k) ==
    LET q == k \div LimbBits
        r == k % LimbBits
    IN  BigNorm([j \in 1..(Len(a) + q + 1) |->
                   (LimbAt(a, j - q) % 2^(LimbBits - r)) * 2^r
                   + LimbAt(a, j - q - 1) \div 2^(LimbBits - r)])

\* a \div 2^k
BigShr(a, k) ==
    LET q == k \div LimbBits
        r == k % LimbBits
    IN  BigNorm([j \in 1..(Len(a) - q) |->
                   LimbAt(a, j + q) \div 2^r
                   + (LimbAt(a, j + q + 1) % 2^r) * 2^(LimbBits - r)])

\* bit i of a, bit 0 the least significant
BigBit(a, i) == (LimbAt(a, i \div LimbBits + 1) \div 2^(i % LimbBits)) % 2

\* the bits of a below bit k are all zero
BigLowZero(a, k) == \A i \in 0..(k - 1) : BigBit(a, i) = 0

\* the number of bits of a
BigBitLen(a) ==
    IF a = << >> THEN 0
    ELSE LimbBits * (Len(a) - 1)
         + CHOOSE n \in 1..LimbBits : 2^(n - 1) <= a[Len(a)] /\ a[Len(a)] < 2^n

BigLess(a, b) ==
    IF Len(a) # Len(b) THEN Len(a) < Len(b)
    ELSE \E i \in 1..Len(a) :
            a[i] < b[i] /\ \A j \in (i + 1)..Len(a) : a[j] = b[j]

\* quotient and remainder of the digits i..1 of a, after remainder rem, by d
RECURSIVE BigDivFrom(_, _, _, _)
BigDivFrom(a, d, i, rem) ==
    IF i = 0 THEN [q |-> << >>, r |-> rem]
    ELSE LET cur == rem * Limb + a[i]
             rest == BigDivFrom(a, d, i - 1, cur % d)
         IN  [q |-> Append(rest.q, cur \div d), r |-> rest.r]

\* quotient and remainder of a by the small number d
BigDivSmall(a, d) ==
    LET res == BigDivFrom(a, d, Len(a), 0)
    IN  [q |-> BigNorm(res.q), r |-> res.r]

Zero64 == [inf |-> FALSE, m |-> << >>, e |-> 0]
Inf64 == [inf |-> TRUE, m |-> << >>, e |-> 0]

\* m * 2^e for a nonzero m, with the trailing zeros of m moved to e
Canonical64(m, e) ==
    LET tz == CHOOSE k \in 0..(BigBitLen(m) - 1) :
                 BigBit(m, k) = 1 /\ BigLowZero(m, k)
    IN  [inf |-> FALSE, m |-> BigShr(m, tz), e |-> e + tz]

\* the binary64 nearest to a * 2^e, or to a bit more if sticky; ties to even
Round64(a, e, sticky) ==
    IF a = << >> THEN Zero64
    ELSE LET drop == BigBitLen(a) - Precision
         IN  IF drop <= 0 THEN Canonical64(a, e)
             ELSE LET q == BigShr(a, drop)
                      half == BigBit(a, drop - 1) = 1
                      more == sticky \/ ~BigLowZero(a, drop - 1)
                      up == half /\ (more \/ BigBit(q, 0) = 1)
                  IN  Canonical64(IF up THEN BigAdd(q, <<1>>) ELSE q, e + drop)

\* the float (n/2) / d for a non-zero d of magnitude d.m, n * d.s >= 0
Div64(n, d) ==
    LET res == BigDivSmall(BigShl(BigFromInt(n * d.s), 70), d.m)
    IN  Round64(res.q, -71, res.r # 0)

\* a + b on floats: inf + b = inf
Add64(a, b) ==
    IF a.inf \/ b.inf THEN Inf64
    ELSE LET e == IF a.e < b.e THEN a.e ELSE b.e
         IN  Round64(BigAdd(BigShl(a.m, a.e - e), BigShl(b.m, b.e - e)), e, FALSE)

\* a < b on floats: inf < inf is false
Lt64(a, b) ==
    /\ ~a.inf
    /\ \/ b.inf
       \/ LET e == IF a.e < b.e THEN a.e ELSE b.e
          IN  BigLess(BigShl(a.m, a.e - e), BigShl(b.m, b.e - e))

------------------------------------------------------------------------------
(* The generator made by cast.  pc is where it is suspended:                *)
(*   "new"    created by the call, no line of the body run yet              *)
(*   "first"  at the yield of line 38                                       *)
(*   "loop"   at the yield of line 75                                       *)
(*   "done"   returned (line 67 or 72)                                      *)

\* cast(origin, direction): calling a generator function runs none of it
NewGen(ox, oy, dirX, dirY) ==
    [NoGen EXCEPT !.pc = "new", !.ox = ox, !.oy = oy, !.dirX = dirX, !.dirY = dirY]

\* lines 36-38: the starting cell, yielded
FirstYield(r) ==
    LET x == floor(r.ox)
        y == floor(r.oy)
    IN  [r EXCEPT !.x = x, !.y = y, !.out = << <<x, y>> >>, !.pc = "first"]

\* lines 40-61 with the distance to the next boundary measured as for a
\* positive step, (1 - offset) / |dir|, whatever the step sign
SetupOffsetUnsigned(r, w, h) ==
    LET stepX == copysign(r.dirX)
        stepY == copysign(r.dirY)
        positiveStepX == AsInt(stepX > 0)
        positiveStepY == AsInt(stepY > 0)
    IN  [r EXCEPT
          !.stepX = stepX,
          !.stepY = stepY,
          !.justOutX = positiveStepX * w + stepX,
          !.justOutY = positiveStepY * h + stepY,
          !.dimsRead = <<w, h>>,
          !.tMaxX = IF NonZero(r.dirX)
                    THEN FDiv(2 - (r.ox - 2 * r.x), [r.dirX EXCEPT !.s = 1])
                    ELSE Inf,
          !.tDeltaX = IF NonZero(r.dirX) THEN FDiv(2 * stepX, r.dirX) ELSE Inf,
          !.tMaxY = IF NonZero(r.dirY)
                    THEN FDiv(2 - (r.oy - 2 * r.y), [r.dirY EXCEPT !.s = 1])
                    ELSE Inf,
          !.tDeltaY = IF NonZero(r.dirY) THEN FDiv(2 * stepY, r.dirY) ELSE Inf]

\* lines 40-61 with the termination indices of a positive step on both axes,
\* whatever the step sign
SetupPositiveOnly(r, w, h) ==
    LET stepX == copysign(r.dirX)
        stepY == copysign(r.dirY)
        positiveStepX == AsInt(stepX > 0)
        positiveStepY == AsInt(stepY > 0)
    IN  [r EXCEPT
          !.stepX = stepX,
          !.stepY = stepY,
          !.justOutX = w + 1,
          !.justOutY = h + 1,
          !.dimsRead = <<w, h>>,
          !.tMaxX = IF NonZero(r.dirX)
                    THEN FDiv(2 * positiveStepX - (r.ox - 2 * r.x), r.dirX)
                    ELSE Inf,
          !.tDeltaX = IF NonZero(r.dirX) THEN FDiv(2 * stepX, r.dirX) ELSE Inf,
          !.tMaxY = IF NonZero(r.dirY)
                    THEN FDiv(2 * positiveStepY - (r.oy - 2 * r.y), r.dirY)
                    ELSE Inf,
          !.tDeltaY = IF NonZero(r.dirY) THEN FDiv(2 * stepY, r.dirY) ELSE Inf]

\* lines 40-61: steps, termination indices and ray parameters, with the
\* dimensions w, h the traverser has when these lines run
Setup(r, w, h) ==
    LET stepX == copysign(r.dirX)
        stepY == copysign(r.dirY)
        positiveStepX == AsInt(stepX > 0)
        positiveStepY == AsInt(stepY > 0)
    IN  [r EXCEPT
          !.stepX = stepX,
          !.stepY = stepY,
          !.justOutX = positiveStepX * w + stepX,
          !.justOutY = positiveStepY * h + stepY,
          !.dimsRead = <<w, h>>,
          !.tMaxX = IF NonZero(r.dirX)
                    THEN FDiv(2 * positiveStepX - (r.ox - 2 * r.x), r.dirX)
                    ELSE Inf,
          !.tDeltaX = IF NonZero(r.dirX) THEN FDiv(2 * stepX, r.dirX) ELSE Inf,
          !.tMaxY = IF NonZero(r.dirY)
                    THEN FDiv(2 * positiveStepY - (r.oy - 2 * r.y), r.dirY)
                    ELSE Inf,
          !.tDeltaY = IF NonZero(r.dirY) THEN FDiv(2 * stepY, r.dirY) ELSE Inf]

\* lines 65-68, then the yield of line 75
StepX(r) ==
    LET x == r.x + r.stepX
    IN  IF x = r.justOutX
        THEN [r EXCEPT !.x = x, !.pc = "done"]
        ELSE [r EXCEPT !.x = x,
                       !.tMaxX = FAdd(r.tMaxX, r.tDeltaX),
                       !.out = Append(r.out, <<x, r.y>>),
                       !.pc = "loop"]

\* lines 70-73, then the yield of line 75
StepY(r) ==
    LET y == r.y + r.stepY
    IN  IF y = r.justOutY
        THEN [r EXCEPT !.y = y, !.pc = "done"]
        ELSE [r EXCEPT !.y = y,
                       !.tMaxY = FAdd(r.tMaxY, r.tDeltaY),
                       !.out = Append(r.out, <<r.x, y>>),
                       !.pc = "loop"]

\* one turn of a loop that crosses a corner in one step: on a tie of finite
\* parameters both axes advance
LoopBodyDiagonal(r) ==
    IF r.tMaxX = r.tMaxY /\ r.tMaxX # Inf
    THEN LET x == r.x + r.stepX
             y == r.y + r.stepY
         IN  IF x = r.justOutX \/ y = r.justOutY
             THEN [r EXCEPT !.x = x, !.y = y, !.pc = "done"]
             ELSE [r EXCEPT !.x = x, !.y = y,
                            !.tMaxX = FAdd(r.tMaxX, r.tDeltaX),
                            !.tMaxY = FAdd(r.tMaxY, r.tDeltaY),
                            !.out = Append(r.out, <<x, y>>),
                            !.pc = "loop"]
    ELSE IF FLt(r.tMaxX, r.tMaxY) THEN StepX(r) ELSE StepY(r)

\* one turn of a loop that compares with <=: on a tie the x axis advances
LoopBodyTieX(r) == IF ~FLt(r.tMaxY, r.tMaxX) THEN StepX(r) ELSE StepY(r)

\* lines 63-75: one turn of the loop
LoopBody(r) == IF FLt(r.tMaxX, r.tMaxY) THEN StepX(r) ELSE StepY(r)

\* next(generator) with the termination indices of lines 45-46 computed anew
\* from the dimensions at every turn of the loop
ResumeEachTurn(r, w, h) ==
    CASE r.pc = "new"   -> FirstYield(r)
      [] r.pc = "first" -> LoopBody(Setup(r, w, h))
      [] r.pc = "loop"  ->
            LoopBody([r EXCEPT !.justOutX = AsInt(r.stepX > 0) * w + r.stepX,
                               !.justOutY = AsInt(r.stepY > 0) * h + r.stepY])
      [] OTHER          -> r

\* next(generator): run from the suspension point to the next yield or return
Resume(r, w, h) ==
    CASE r.pc = "new"   -> FirstYield(r)
      [] r.pc = "first" -> LoopBody(Setup(r, w, h))
      [] r.pc = "loop"  -> LoopBody(r)
      [] OTHER          -> r

------------------------------------------------------------------------------
(* The generator on binary64 ray parameters *)

\* lines 40-61, the quotients rounded as binary64
Setup64(r, w, h) ==
    LET stepX == copysign(r.dirX)
        stepY == copysign(r.dirY)
        positiveStepX == AsInt(stepX > 0)
        positiveStepY == AsInt(stepY > 0)
    IN  [r EXCEPT
          !.stepX = stepX,
          !.stepY = stepY,
          !.justOutX = positiveStepX * w + stepX,
          !.justOutY = positiveStepY * h + stepY,
          !.dimsRead = <<w, h>>,
          !.tMaxX = IF NonZero(r.dirX)
                    THEN Div64(2 * positiveStepX - (r.ox - 2 * r.x), r.dirX)
                    ELSE Inf64,
          !.tDeltaX = IF NonZero(r.dirX) THEN Div64(2 * stepX, r.dirX) ELSE Inf64,
          !.tMaxY = IF NonZero(r.dirY)
                    THEN Div64(2 * positiveStepY - (r.oy - 2 * r.y), r.dirY)
                    ELSE Inf64,
          !.tDeltaY = IF NonZero(r.dirY) THEN Div64(2 * stepY, r.dirY) ELSE Inf64]

\* lines 65-68, then the yield of line 75
StepX64(r) ==
    LET x == r.x + r.stepX
    IN  IF x = r.justOutX
        THEN [r EXCEPT !.x = x, !.pc = "done"]
        ELSE [r EXCEPT !.x = x,
                       !.tMaxX = Add64(r.tMaxX, r.tDeltaX),
                       !.out = Append(r.out, <<x, r.y>>),
                       !.pc = "loop"]

\* lines 70-73, then the yield of line 75
StepY64(r) ==
    LET y == r.y + r.stepY
    IN  IF y = r.justOutY
        THEN [r EXCEPT !.y = y, !.pc = "done"]
        ELSE [r EXCEPT !.y = y,
                       !.tMaxY = Add64(r.tMaxY, r.tDeltaY),
                       !.out = Append(r.out, <<r.x, y>>),
                       !.pc = "loop"]

\* lines 63-75: one turn of the loop
LoopBody64(r) == IF Lt64(r.tMaxX, r.tMaxY) THEN StepX64(r) ELSE StepY64(r)

\* next(generator): run from the suspension point to the next yield or return
Resume64(r, w, h) ==
    CASE r.pc = "new"   -> FirstYield(r)
      [] r.pc = "first" -> LoopBody64(Setup64(r, w, h))
      [] r.pc = "loop"  -> LoopBody64(r)
      [] OTHER          -> r

------------------------------------------------------------------------------
(* Operations *)

\* VoxelRaycaster(w, h)
Init ==
    /\ width \in Dims
    /\ height \in Dims
    /\ gen = [g \in GenIds |-> NoGen]
    /\ lastDim = [op |-> "__init__", w |-> width, h |-> height]
    /\ view = NoView
    /\ ray_view = NoRayView

\* a set_dim that assigns the width alone
set_dim_width_only(w, h) ==
    /\ width' = w
    /\ height' = height
    /\ lastDim' = [op |-> "set_dim", w |-> w, h |-> h]

\* set_dim(w, h)
set_dim(w, h) ==
    /\ width' = w
    /\ height' = h
    /\ lastDim' = [op |-> "set_dim", w |-> w, h |-> h]

\* The owner resizes the grid between two renders: on_loop calls set_dim
\* (through reset_grid) before on_render makes and consumes a generator, so
\* no generator is alive when it runs.
Resize(w, h) ==
    /\ \A g \in GenIds : gen[g].pc = "none"
    /\ set_dim(w, h)
    /\ UNCHANGED <<gen, view, ray_view>>

\* g = cast(origin, direction), for any origin and direction
cast(g) ==
    /\ gen[g].pc = "none"
    /\ \E ox \in Coords, oy \in Coords, dirX \in Components, dirY \in Components :
          gen' = [gen EXCEPT ![g] = NewGen(ox, oy, dirX, dirY)]
    /\ UNCHANGED <<width, height, lastDim, view, ray_view>>

\* next(g) with the current cell kept on the traverser instead of in the
\* generator: every generator past its first yield continues from the cell g
\* has reached
NextCellShared(g) ==
    /\ gen[g].pc \in {"new", "first", "loop"}
    /\ Len(gen[g].out) < MaxCells
    /\ LET r == Resume(gen[g], width, height)
       IN  gen' = [h \in GenIds |->
                     IF h = g THEN r
                     ELSE IF gen[h].pc \in {"first", "loop"}
                          THEN [gen[h] EXCEPT !.x = r.x, !.y = r.y]
                          ELSE gen[h]]
    /\ UNCHANGED <<width, height, lastDim, view, ray_view>>

\* next(g), as the for loop of on_render calls it
NextCell(g) ==
    /\ gen[g].pc \in {"new", "first", "loop"}
    /\ Len(gen[g].out) < MaxCells
    /\ gen' = [gen EXCEPT ![g] = Resume(gen[g], width, height)]
    /\ UNCHANGED <<width, height, lastDim, view, ray_view>>

\* the consumer drops g: the for loop ended, or iteration was abandoned
Discard(g) ==
    /\ gen[g].pc # "none"
    /\ gen' = [gen EXCEPT ![g] = NoGen]
    /\ UNCHANGED <<width, height, lastDim, view, ray_view>>

Next ==
    \/ \E w \in Dims, h \in Dims : Resize(w, h)
    \/ \E g \in SeqGens : cast(g)
    \/ \E g \in SeqGens : NextCell(g)
    \/ \E g \in SeqGens : Discard(g)

Spec == Init /\ [][Next]_vars

\* The for loop of on_render asks for the next cell as long as the generator
\* has not returned.
SpecLive == Spec /\ \A g \in SeqGens : WF_vars(NextCell(g))

------------------------------------------------------------------------------
(* Two casts on one traverser, consumed in any interleaving *)

\* origins of the interleaved casts, in half cells: the centre of cell 0 and
\* of cell MaxDim - 1
PairCoords == {1, 2 * MaxDim - 1}
\* their direction components: 0.0, -0.0, 1.0, -1.0
PairComponents == [s : {1, -1}, m : {0, 1}]

\* VoxelRaycaster(w, h) with positive extents
InitPair ==
    /\ width \in 1..MaxDim
    /\ height \in 1..MaxDim
    /\ gen = [g \in GenIds |-> NoGen]
    /\ lastDim = [op |-> "__init__", w |-> width, h |-> height]
    /\ view = NoView
    /\ ray_view = NoRayView

\* g = cast(origin, direction), while the other generator may be alive
castPair(g) ==
    /\ gen[g].pc = "none"
    /\ \E ox \in PairCoords, oy \in PairCoords,
          dirX \in PairComponents, dirY \in PairComponents :
          gen' = [gen EXCEPT ![g] = NewGen(ox, oy, dirX, dirY)]
    /\ UNCHANGED <<width, height, lastDim, view, ray_view>>

NextPair ==
    \/ \E g \in GenIds : castPair(g)
    \/ \E g \in GenIds : NextCell(g)

SpecPair == InitPair /\ [][NextPair]_vars

------------------------------------------------------------------------------
(* Casts from cell centres on grids up to TieDim x TieDim *)

\* the centres of the cells 0..TieDim-1, in half cells
TieCoords == {2 * c + 1 : c \in 0..(TieDim - 1)}

\* VoxelRaycaster(w, h) with positive extents
InitTie ==
    /\ width \in 1..TieDim
    /\ height \in 1..TieDim
    /\ gen = [g \in GenIds |-> NoGen]
    /\ lastDim = [op |-> "__init__", w |-> width, h |-> height]
    /\ view = NoView
    /\ ray_view = NoRayView

\* g = cast(origin, direction) from a cell centre, in any direction
castTie(g) ==
    /\ gen[g].pc = "none"
    /\ \E ox \in TieCoords, oy \in TieCoords,
          dirX \in Components, dirY \in Components :
          gen' = [gen EXCEPT ![g] = NewGen(ox, oy, dirX, dirY)]
    /\ UNCHANGED <<width, height, lastDim, view, ray_view>>

NextTie ==
    \/ \E g \in SeqGens : castTie(g)
    \/ \E g \in SeqGens : NextCell(g)
    \/ \E g \in SeqGens : Discard(g)

SpecTie == InitTie /\ [][NextTie]_vars

------------------------------------------------------------------------------
(* set_dim called while a cast is being consumed *)

\* VoxelRaycaster(w, h) with positive extents
InitInFlight ==
    /\ width \in 1..MaxDim
    /\ height \in 1..MaxDim
    /\ gen = [g \in GenIds |-> NoGen]
    /\ lastDim = [op |-> "__init__", w |-> width, h |-> height]
    /\ view = NoView
    /\ ray_view = NoRayView

\* set_dim(w, h) with positive extents, at any point of the consumer's loop
SetDimInFlight(w, h) ==
    /\ set_dim(w, h)
    /\ UNCHANGED <<gen, view, ray_view>>

\* g = cast(origin, direction); the dimensions of that moment are remembered
castInFlight(g) ==
    /\ gen[g].pc = "none"
    /\ \E ox \in PairCoords, oy \in PairCoords,
          dirX \in PairComponents, dirY \in PairComponents :
          gen' = [gen EXCEPT ![g] = [NewGen(ox, oy, dirX, dirY)
                                       EXCEPT !.dimsAtCall = <<width, height>>]]
    /\ UNCHANGED <<width, height, lastDim, view, ray_view>>

NextInFlight ==
    \/ \E w \in 1..MaxDim, h \in 1..MaxDim : SetDimInFlight(w, h)
    \/ \E g \in SeqGens : castInFlight(g)
    \/ \E g \in SeqGens : NextCell(g)
    \/ \E g \in SeqGens : Discard(g)

SpecInFlight == InitInFlight /\ [][NextInFlight]_vars

------------------------------------------------------------------------------
(* GridView and its RayView: the events of the application *)

\* the grid is panned at most MaxPanSteps drags of 100 pixels from its
\* initial position, on each axis
MaxPanSteps == 2

\* RayView.__init__ on a surface of sw x sh pixels
InitialRayView(sw, sh) ==
    [x |-> sw \div 2, y |-> sh \div 2,
     dx |-> sw \div 2 + 100, dy |-> sh \div 2 + 100,
     start_hovered |-> TRUE]

\* GridView.__init__ on a surface of sw x sh pixels, up to the construction
\* of the traverser
InitialView(sw, sh) ==
    [width |-> sw, height |-> sh, drag |-> FALSE, drag_ray |-> FALSE,
     last_cursor |-> "None", x |-> 0, y |-> 0, cell_size |-> 32,
     grid_width |-> sw \div 32 + 1, grid_height |-> sh \div 32 + 1]

\* math.dist((mx, my), (hx, hy)) <= self.click_radius, on integers
WithinClickRadius(mx, my, hx, hy) ==
    (mx - hx) * (mx - hx) + (my - hy) * (my - hy) <= 12 * 12

\* the value RayView.is_hovering returns
is_hovering(rv, pos) ==
    \/ WithinClickRadius(pos[1], pos[2], rv.dx, rv.dy)
    \/ WithinClickRadius(pos[1], pos[2], rv.x, rv.y)

\* the RayView after is_hovering: the handle under the mouse is remembered,
\* the end handle first
after_is_hovering(rv, pos) ==
    IF WithinClickRadius(pos[1], pos[2], rv.dx, rv.dy)
    THEN [rv EXCEPT !.start_hovered = FALSE]
    ELSE IF WithinClickRadius(pos[1], pos[2], rv.x, rv.y)
         THEN [rv EXCEPT !.start_hovered = TRUE]
         ELSE rv

\* RayView.translate
ray_translate(rv, rel) ==
    IF rv.start_hovered
    THEN [rv EXCEPT !.x = @ + rel[1], !.y = @ + rel[2]]
    ELSE [rv EXCEPT !.dx = @ + rel[1], !.dy = @ + rel[2]]

reset_position(v) == [v EXCEPT !.x = 0, !.y = 0]

reset_zoom(v) == [v EXCEPT !.cell_size = 32]

zoom(v, amount) ==
    LET cell_size == v.cell_size + amount
    IN  [v EXCEPT !.cell_size = IF cell_size < 16 THEN 16
                                ELSE IF cell_size > 64 THEN 64
                                ELSE cell_size]

\* GridView.translate
translate(v, rel) == [v EXCEPT !.x = @ + rel[1], !.y = @ + rel[2]]

_set_cursor(v, cursor) ==
    IF v.last_cursor # cursor THEN [v EXCEPT !.last_cursor = cursor] ELSE v

\* the cursor on_event chooses when nothing is dragged
HoverCursor(rv, pos) == IF is_hovering(rv, pos) THEN "HAND" ELSE "ARROW"

\* a press of button 3 that starts panning whatever is being dragged
PressButton3Always(v) == _set_cursor([v EXCEPT !.drag = TRUE], "SIZEALL")

\* lines 175-178: a press of button 3
PressButton3(v) ==
    IF ~v.drag_ray
    THEN _set_cursor([v EXCEPT !.drag = TRUE], "SIZEALL")
    ELSE v

\* a reset_grid that gives the traverser surface // cell_size cells per axis
reset_grid_floor(sw, sh) ==
    /\ view' = [view EXCEPT !.width = sw, !.height = sh,
                            !.grid_width = sw \div view.cell_size,
                            !.grid_height = sh \div view.cell_size]
    /\ set_dim(sw \div view.cell_size, sh \div view.cell_size)

\* reset_grid, when the surface measures sw x sh pixels
reset_grid(sw, sh) ==
    /\ view' = [view EXCEPT !.width = sw, !.height = sh,
                            !.grid_width = sw \div view.cell_size + 1,
                            !.grid_height = sh \div view.cell_size + 1]
    /\ set_dim(sw \div view.cell_size + 1, sh \div view.cell_size + 1)

\* GridView(surface) in App.on_init: the surface measures 640 x 400
InitView ==
    /\ view = InitialView(640, 400)
    /\ ray_view = InitialRayView(640, 400)
    /\ width = view.grid_width
    /\ height = view.grid_height
    /\ gen = [g \in GenIds |-> NoGen]
    /\ lastDim = [op |-> "__init__", w |-> width, h |-> height]

\* GridView.on_event(e)
on_event(e) ==
    /\ view' =
         CASE e.type = "KEYDOWN" ->
                IF e.key = "K_SPACE" THEN reset_zoom(reset_position(view)) ELSE view
           [] e.type = "MOUSEBUTTONDOWN" ->
                CASE e.button = 1 ->
                       IF ~view.drag /\ is_hovering(ray_view, e.pos)
                       THEN [view EXCEPT !.drag_ray = TRUE]
                       ELSE view
                  [] e.button = 3 -> PressButton3(view)
                  [] e.button = 4 -> zoom(view, 1)
                  [] e.button = 5 -> zoom(view, -1)
                  [] OTHER -> view
           [] e.type = "MOUSEBUTTONUP" ->
                CASE e.button = 1 -> [view EXCEPT !.drag_ray = FALSE]
                  [] e.button = 3 ->
                       _set_cursor([view EXCEPT !.drag = FALSE],
                                   HoverCursor(ray_view, e.pos))
                  [] OTHER -> view
           [] e.type = "MOUSEMOTION" ->
                IF view.drag THEN translate(view, e.rel)
                ELSE IF view.drag_ray THEN view
                ELSE _set_cursor(view, HoverCursor(ray_view, e.pos))
           [] OTHER -> view
    /\ ray_view' =
         CASE e.type = "MOUSEBUTTONDOWN" /\ e.button = 1 /\ ~view.drag ->
                after_is_hovering(ray_view, e.pos)
           [] e.type = "MOUSEBUTTONUP" /\ e.button = 3 ->
                after_is_hovering(ray_view, e.pos)
           [] e.type = "MOUSEMOTION" /\ ~view.drag /\ view.drag_ray ->
                ray_translate(ray_view, e.rel)
           [] e.type = "MOUSEMOTION" /\ ~view.drag /\ ~view.drag_ray ->
                after_is_hovering(ray_view, e.pos)
           [] OTHER -> ray_view
    /\ UNCHANGED <<width, height, gen, lastDim>>

\* GridView.on_loop(), when the surface measures sw x sh pixels
on_loop(sw, sh) ==
    /\ reset_grid(sw, sh)
    /\ UNCHANGED <<gen, ray_view>>

\* the events pygame delivers
Event(type, key, button, pos, rel) ==
    [type |-> type, key |-> key, button |-> button, pos |-> pos, rel |-> rel]

\* surface sizes: the window of App, and windows resized down to nothing
SurfaceWidths == {0, 15, 640}
SurfaceHeights == {0, 400}

\* the space key, another key, and the mouse wheel
ZoomEvents ==
    {Event("KEYDOWN", k, 0, <<0, 0>>, <<0, 0>>) : k \in {"K_SPACE", "K_a"}}
    \cup {Event("MOUSEBUTTONDOWN", "", b, <<0, 0>>, <<0, 0>>) : b \in {4, 5}}

NextZoom ==
    \/ \E e \in ZoomEvents : on_event(e)
    \/ \E sw \in SurfaceWidths, sh \in SurfaceHeights : on_loop(sw, sh)

SpecZoom == InitView /\ [][NextZoom]_vars

\* mouse positions: on the start handle, near it, on the end handle, away
MousePositions == {<<320, 200>>, <<328, 208>>, <<420, 300>>, <<0, 0>>}
\* mouse movements: from one handle to where the other one starts, either way
Rels == {<<100, 100>>, <<-100, -100>>}

\* keys, the buttons 1, 2 and 3, and mouse motion
DragEvents ==
    {Event("KEYDOWN", k, 0, <<0, 0>>, <<0, 0>>) : k \in {"K_SPACE", "K_a"}}
    \cup {Event(t, "", b, pos, <<0, 0>>) :
             t \in {"MOUSEBUTTONDOWN", "MOUSEBUTTONUP"}, b \in {1, 2, 3},
             pos \in MousePositions}
    \cup {Event("MOUSEMOTION", "", 0, pos, rel) :
             pos \in MousePositions, rel \in Rels}

\* the handles are on the surface and the grid is within MaxPanSteps drags
WithinReach ==
    /\ ray_view.x \in 0..view.width /\ ray_view.dx \in 0..view.width
    /\ ray_view.y \in 0..view.height /\ ray_view.dy \in 0..view.height
    /\ view.x \in (-MaxPanSteps * 100)..(MaxPanSteps * 100)
    /\ view.y \in (-MaxPanSteps * 100)..(MaxPanSteps * 100)

NextDrag == \E e \in DragEvents : on_event(e) /\ WithinReach'

SpecDrag == InitView /\ [][NextDrag]_vars

------------------------------------------------------------------------------
(* A cast and the cast of the same ray with its direction scaled *)

\* direction components: 0.0, -0.0, 1.0, -1.0, 3.0, -3.0
ScaleComponents == [s : {1, -1}, m : {0, 1, 3}]
\* the scales k
Scales == {2, 3}

\* k * d for a direction component d
Scaled(k, d) == [d EXCEPT !.m = k * d.m]

\* gen[1] = cast(origin, direction) from a cell centre
castBase(g) ==
    /\ g = 1
    /\ gen[g].pc = "none"
    /\ \E ox \in TieCoords, oy \in TieCoords,
          dirX \in ScaleComponents, dirY \in ScaleComponents :
          gen' = [gen EXCEPT ![g] = NewGen(ox, oy, dirX, dirY)]
    /\ UNCHANGED <<width, height, lastDim, view, ray_view>>

\* gen[2] = cast(origin, k * direction), once the cast gen[1] of that origin
\* and direction has been consumed
castScaled(g) ==
    /\ g = 2
    /\ gen[g].pc = "none"
    /\ gen[1].pc = "done"
    /\ \E k \in Scales :
          gen' = [gen EXCEPT ![g] = NewGen(gen[1].ox, gen[1].oy,
                                           Scaled(k, gen[1].dirX),
                                           Scaled(k, gen[1].dirY))]
    /\ UNCHANGED <<width, height, lastDim, view, ray_view>>

\* next(g) on binary64 ray parameters
NextCell64(g) ==
    /\ gen[g].pc \in {"new", "first", "loop"}
    /\ Len(gen[g].out) < MaxCells
    /\ gen' = [gen EXCEPT ![g] = Resume64(gen[g], width, height)]
    /\ UNCHANGED <<width, height, lastDim, view, ray_view>>

NextScale ==
    \/ \E g \in GenIds : castBase(g)
    \/ \E g \in GenIds : castScaled(g)
    \/ \E g \in GenIds : NextCell64(g)

SpecScale == InitTie /\ [][NextScale]_vars

------------------------------------------------------------------------------
(* The same cast on a freshly constructed traverser *)

\* for cell in generator: resume r until it returns (or has yielded MaxCells)
RECURSIVE Drain(_, _, _)
Drain(r, w, h) ==
    IF r.pc = "done" \/ Len(r.out) >= MaxCells
    THEN r
    ELSE Drain(Resume(r, w, h), w, h)

\* list(VoxelRaycaster(w, h).cast(origin, direction))
FreshCast(w, h, ox, oy, dirX, dirY) == Drain(NewGen(ox, oy, dirX, dirY), w, h).out

------------------------------------------------------------------------------
(* Vocabulary of the properties *)

Live == {g \in GenIds : gen[g].pc # "none"}

\* the cell c lies in [0, width) x [0, height)
InGrid(c) == 0 <= c[1] /\ c[1] < width /\ 0 <= c[2] /\ c[2] < height

\* the origin of r lies in [0, width) x [0, height)
OriginInside(r) ==
    0 <= r.ox /\ r.ox < 2 * width /\ 0 <= r.oy /\ r.oy < 2 * height

\* c is the cell holding the origin of r: c <= origin < c + 1 on both axes
IsOriginCell(r, c) ==
    /\ 2 * c[1] <= r.ox /\ r.ox < 2 * c[1] + 2
    /\ 2 * c[2] <= r.oy /\ r.oy < 2 * c[2] + 2

GridPositive == width >= 1 /\ height >= 1

------------------------------------------------------------------------------
(* Properties *)

\* C1: on a grid with width >= 1 and height >= 1, a cast whose origin lies
\* inside the grid yields no cell outside [0,width) x [0,height): it stops
\* without yielding when a step would leave the grid.
C1_NoCellOutsideAfterFirst ==
    \A g \in Live :
        (GridPositive /\ OriginInside(gen[g])) =>
            \A i \in 2..Len(gen[g].out) : InGrid(gen[g].out[i])

\* C2: on a grid with width >= 1 and height >= 1, a cast whose origin lies
\* inside the grid yields at most width + height cells, the first included.
C2_AtMostWidthPlusHeightCells ==
    \A g \in Live :
        (GridPositive /\ OriginInside(gen[g])) =>
            Len(gen[g].out) <= width + height

\* C3: the first cell a cast yields is (floor(origin.x), floor(origin.y)),
\* for every origin and direction, and when it is yielded nothing else has
\* been done: it is the only cell yielded and the current cell.
C3_FirstCellIsFlooredOrigin ==
    \A g \in Live :
        /\ gen[g].pc # "new" =>
              /\ Len(gen[g].out) >= 1
              /\ IsOriginCell(gen[g], gen[g].out[1])
        /\ gen[g].pc = "first" =>
              /\ Len(gen[g].out) = 1
              /\ <<gen[g].x, gen[g].y>> = gen[g].out[1]

\* C3 witness: the starting cell of an origin left of the grid (x = -1/2),
\* with a zero x component, has been yielded and nothing else was done.
C3_Witness ==
    \E g \in Live :
        /\ gen[g].pc = "first"
        /\ GridPositive
        /\ gen[g].ox = -1
        /\ gen[g].dirX.m = 0
        /\ gen[g].out = << <<-1, floor(gen[g].oy)>> >>

\* C4: a cast whose direction is the zero vector (0, 0), from an origin
\* inside the grid, yields the starting cell and no other.
C4_ZeroDirectionYieldsOneCell ==
    \A g \in Live :
        (GridPositive /\ OriginInside(gen[g])
           /\ gen[g].dirX = [s |-> 1, m |-> 0]
           /\ gen[g].dirY = [s |-> 1, m |-> 0]) =>
            Len(gen[g].out) <= 1

\* C5: a cast with direction (d, 0), d > 0, from an origin inside the grid
\* at cell (x0, y0), yields (x0,y0), (x0+1,y0), ..., (width-1,y0) and stops.
C5_AxisAlignedStopsAtLastColumn ==
    \A g \in Live :
        (gen[g].pc = "done" /\ OriginInside(gen[g])
           /\ gen[g].dirX.s = 1 /\ gen[g].dirX.m > 0 /\ gen[g].dirY.m = 0) =>
            LET x0 == gen[g].out[1][1]
                y0 == gen[g].out[1][2]
            IN  gen[g].out = [i \in 1..(width - x0) |-> <<x0 + i - 1, y0>>]

\* C6: every yielded cell differs from the one yielded before it by one unit
\* on exactly one axis, in the direction of that axis's step sign (the sign
\* of the direction component), the other coordinate unchanged.
C6_UnitStepOnOneAxis ==
    \A g \in Live :
        \A i \in 2..Len(gen[g].out) :
            LET a == gen[g].out[i - 1]
                b == gen[g].out[i]
            IN  \/ b[1] - a[1] = gen[g].dirX.s /\ b[2] = a[2]
                \/ b[2] - a[2] = gen[g].dirY.s /\ b[1] = a[1]

\* C6 witness: a finished cast from inside the grid that stepped down in x and up in y.
C6_Witness ==
    \E g \in Live :
        /\ gen[g].pc = "done"
        /\ OriginInside(gen[g])
        /\ \E i, j \in 2..Len(gen[g].out) :
              /\ gen[g].out[i][1] - gen[g].out[i - 1][1] = -1
              /\ gen[g].out[j][2] - gen[g].out[j - 1][2] = 1

\* C7: no cell appears twice in the sequence one cast yields.
C7_NoCellTwice ==
    \A g \in Live :
        \A i, j \in 1..Len(gen[g].out) :
            i # j => gen[g].out[i] # gen[g].out[j]

\* C7 witness: a finished cast from inside the grid that yielded five cells
\* or more, turning between the axes.
C7_Witness ==
    \E g \in Live :
        /\ gen[g].pc = "done"
        /\ OriginInside(gen[g])
        /\ Len(gen[g].out) >= 5
        /\ \E i \in 2..(Len(gen[g].out) - 1) :
              /\ gen[g].out[i][1] # gen[g].out[i - 1][1]
              /\ gen[g].out[i + 1][2] # gen[g].out[i][2]

\* C8: a cast whose origin floors to a cell outside the grid yields that one
\* cell and no other.
C8_OutsideOriginYieldsOneCell ==
    \A g \in Live :
        (GridPositive /\ ~OriginInside(gen[g])) =>
            Len(gen[g].out) <= 1

\* C9: no traverser with width <= 0 or height <= 0 exists.
C9_DimensionsPositive == width >= 1 /\ height >= 1

\* C10: a cast consumed to its end yields the sequence the same cast yields
\* on a fresh traverser built with the dimensions last asked for, by the
\* constructor or by set_dim, whatever casts and resizes came before.
C10_CastAfterSetDimAsFresh ==
    \A g \in Live :
        gen[g].pc = "done" =>
            gen[g].out = FreshCast(lastDim.w, lastDim.h, gen[g].ox, gen[g].oy,
                                   gen[g].dirX, gen[g].dirY)

\* C10 witness: a cast started inside the grid after a set_dim has been
\* consumed to its end, and stepped on both axes.
C10_Witness ==
    \E g \in Live :
        /\ gen[g].pc = "done"
        /\ lastDim.op = "set_dim"
        /\ OriginInside(gen[g])
        /\ \E i, j \in 2..Len(gen[g].out) :
              /\ gen[g].out[i][1] # gen[g].out[i - 1][1]
              /\ gen[g].out[j][2] # gen[g].out[j - 1][2]

\* s is an initial part of t
IsPrefix(s, t) == Len(s) <= Len(t) /\ \A i \in 1..Len(s) : s[i] = t[i]

\* what generator g yields when it is consumed alone on this traverser
Alone(g) ==
    FreshCast(width, height, gen[g].ox, gen[g].oy, gen[g].dirX, gen[g].dirY)

\* C11: two casts on one traverser consumed in any interleaving: at every
\* moment each has yielded an initial part of the sequence it yields when
\* consumed alone, and all of it once it has returned; and a step that
\* advances one generator leaves the other generator and the dimensions of
\* the grid as they were.
C11_InterleavedCastsIndependent ==
    /\ [](\A g \in Live :
            /\ IsPrefix(gen[g].out, Alone(g))
            /\ gen[g].pc = "done" => gen[g].out = Alone(g))
    /\ [][\A g \in GenIds :
            gen'[g] # gen[g] =>
                /\ \A h \in GenIds \ {g} : gen'[h] = gen[h]
                /\ width' = width /\ height' = height]_vars

\* C11 witness: both casts have returned after yielding three cells or more
\* each, of different sequences.
C11_Witness ==
    /\ gen[1].pc = "done" /\ gen[2].pc = "done"
    /\ Len(gen[1].out) >= 3 /\ Len(gen[2].out) >= 3
    /\ gen[1].out # gen[2].out

\* C13: a cast whose origin lies inside the grid (width >= 1, height >= 1),
\* with any direction, returns when it is consumed to the end: once made, it
\* leads to a generator that has returned (or that the consumer has dropped).
C13_InsideCastTerminates ==
    \A g \in SeqGens :
        (gen[g].pc = "new" /\ GridPositive /\ OriginInside(gen[g]))
            ~> (gen[g].pc \in {"done", "none"})

\* C13 witness: a cast from inside the grid with a zero x component has
\* returned after yielding two cells or more.
C13_Witness ==
    \E g \in Live :
        /\ gen[g].pc = "done"
        /\ GridPositive /\ OriginInside(gen[g])
        /\ gen[g].dirX.m = 0
        /\ Len(gen[g].out) >= 2

\* the ray parameters generator r compares at its next turn of the loop:
\* those of lines 40-61 when it is at its first yield
AtLoop(r) == IF r.pc = "first" THEN Setup(r, width, height) ELSE r

\* the cells of the n x n grid from the last one to (0,0), down in y and
\* then down in x: (n-1,n-1), (n-1,n-2), (n-2,n-2), ..., (0,0)
Staircase(n) ==
    [i \in 1..(2 * n - 1) |-> <<n - 1 - ((i - 1) \div 2), n - 1 - (i \div 2)>>]

\* C14: at every turn of the loop the x axis advances only when tMaxX is
\* strictly smaller than tMaxY; when they are equal, x keeps its value and y
\* advances by its step.  On the TieDim x TieDim grid (5 x 5) the cast from
\* the centre of the last cell with direction (-1, -1) yields the diagonal
\* cells (4,4), (3,3), (2,2), (1,1), (0,0) in that order, each reached by the
\* y step and then the x step.
C14_TieAdvancesY ==
    /\ [](\A g \in Live :
            (/\ gen[g].pc = "done"
             /\ width = TieDim /\ height = TieDim
             /\ gen[g].ox = 2 * TieDim - 1 /\ gen[g].oy = 2 * TieDim - 1
             /\ gen[g].dirX = [s |-> -1, m |-> 1]
             /\ gen[g].dirY = [s |-> -1, m |-> 1])
                => gen[g].out = Staircase(TieDim))
    /\ [][\A g \in GenIds :
            (gen[g].pc \in {"first", "loop"} /\ gen'[g].pc \in {"loop", "done"}) =>
                LET tx == AtLoop(gen[g]).tMaxX
                    ty == AtLoop(gen[g]).tMaxY
                    strictlySmaller == tx # Inf /\ (ty = Inf \/ tx < ty)
                IN  /\ gen'[g].x # gen[g].x => strictlySmaller
                    /\ tx = ty =>
                          /\ gen'[g].x = gen[g].x
                          /\ gen'[g].y = gen[g].y + gen[g].dirY.s]_vars

\* C14 witness: the cast from the centre of the last cell of the
\* TieDim x TieDim grid with direction (-1, -1) has returned.
C14_Witness ==
    \E g \in Live :
        /\ gen[g].pc = "done"
        /\ width = TieDim /\ height = TieDim
        /\ gen[g].ox = 2 * TieDim - 1 /\ gen[g].oy = 2 * TieDim - 1
        /\ gen[g].dirX = [s |-> -1, m |-> 1]
        /\ gen[g].dirY = [s |-> -1, m |-> 1]
        /\ Len(gen[g].out) = 2 * TieDim - 1

\* C15: an axis whose direction component is zero never advances: its tMax
\* and tDelta are +infinity, and every cell the cast yields has the
\* coordinate of the starting cell on that axis (stated for the casts made
\* from inside a grid with positive extents).
C15_ZeroComponentAxisNeverAdvances ==
    \A g \in {h \in Live : GridPositive /\ OriginInside(gen[h])} :
        /\ gen[g].dirX.m = 0 =>
              /\ gen[g].pc \in {"loop", "done"} =>
                    gen[g].tMaxX = Inf /\ gen[g].tDeltaX = Inf
              /\ \A i \in 1..Len(gen[g].out) : gen[g].out[i][1] = gen[g].out[1][1]
        /\ gen[g].dirY.m = 0 =>
              /\ gen[g].pc \in {"loop", "done"} =>
                    gen[g].tMaxY = Inf /\ gen[g].tDeltaY = Inf
              /\ \A i \in 1..Len(gen[g].out) : gen[g].out[i][2] = gen[g].out[1][2]

Abs(n) == IF n < 0 THEN -n ELSE n

\* the number of steps generator r has yielded along x, and along y
YieldedStepsX(r) == Abs(r.out[Len(r.out)][1] - r.out[1][1])
YieldedStepsY(r) == Abs(r.out[Len(r.out)][2] - r.out[1][2])

\* C16: a cast from inside the grid whose origin has an integral coordinate.
\* On that axis, with a non-zero component d, the ray parameter starts at 1/|d|
\* (a full cell) for a positive step and at 0 for a negative step, and grows by
\* 1/|d| with every cell yielded along the axis (in quarters: 4 / |d|).  The
\* starting cell is yielded once, and every later cell is next to the cell
\* yielded before it.
C16_OriginOnBoundary ==
    \A g \in Live :
        (gen[g].pc \in {"loop", "done"} /\ GridPositive /\ OriginInside(gen[g])) =>
            /\ (gen[g].ox % 2 = 0 /\ gen[g].dirX.m # 0) =>
                  gen[g].tMaxX =
                      (IF gen[g].dirX.s = 1 THEN 4 \div gen[g].dirX.m ELSE 0)
                        + YieldedStepsX(gen[g]) * (4 \div gen[g].dirX.m)
            /\ (gen[g].oy % 2 = 0 /\ gen[g].dirY.m # 0) =>
                  gen[g].tMaxY =
                      (IF gen[g].dirY.s = 1 THEN 4 \div gen[g].dirY.m ELSE 0)
                        + YieldedStepsY(gen[g]) * (4 \div gen[g].dirY.m)
            /\ (gen[g].ox % 2 = 0 \/ gen[g].oy % 2 = 0) =>
                  /\ IsOriginCell(gen[g], gen[g].out[1])
                  /\ \A i \in 2..Len(gen[g].out) :
                        /\ gen[g].out[i] # gen[g].out[1]
                        /\ Abs(gen[g].out[i][1] - gen[g].out[i - 1][1])
                             + Abs(gen[g].out[i][2] - gen[g].out[i - 1][2]) = 1

\* C16 witness: a cast from a corner of cells inside the grid (both
\* coordinates integral), stepping down in x and up in y, has returned after
\* yielding cells on both sides of the corner.
C16_Witness ==
    \E g \in Live :
        /\ gen[g].pc = "done"
        /\ GridPositive /\ OriginInside(gen[g])
        /\ gen[g].ox % 2 = 0 /\ gen[g].oy % 2 = 0
        /\ gen[g].dirX = [s |-> -1, m |-> 1]
        /\ gen[g].dirY = [s |-> 1, m |-> 2]
        /\ Len(gen[g].out) >= 3
        /\ gen[g].out[2][1] = gen[g].out[1][1] - 1

\* list(VoxelRaycaster(d[1], d[2]).cast(origin, direction)) for the origin and
\* direction of r
FreshWith(r, d) == FreshCast(d[1], d[2], r.ox, r.oy, r.dirX, r.dirY)

\* C18: a cast reads the dimensions exactly once, when the second cell is
\* requested.  Before that request nothing is read, and the cells to come are
\* those of the dimensions in force now, whatever they were when cast was
\* called.  From that request on, the cells yielded and the cells to come are
\* those of a cast on a grid of the dimensions read then, whatever set_dim has
\* made of the dimensions since.
C18_DimensionsReadAtSecondRequest ==
    \A g \in Live :
        LET r == gen[g]
        IN  /\ r.pc \in {"new", "first"} =>
                  /\ r.dimsRead = << >>
                  /\ Drain(r, width, height).out = FreshWith(r, <<width, height>>)
            /\ r.pc \in {"loop", "done"} =>
                  /\ r.dimsRead # << >>
                  /\ IsPrefix(r.out, FreshWith(r, r.dimsRead))
                  /\ Drain(r, width, height).out = FreshWith(r, r.dimsRead)
                  /\ r.pc = "done" => r.out = FreshWith(r, r.dimsRead)

\* a finished cast whose dimensions were changed between the call and the
\* second request, and again afterwards: its cells are neither those of the
\* dimensions at the call nor those of the dimensions now
C18_Witness ==
    \E g \in Live :
        LET r == gen[g]
        IN  /\ r.pc = "done"
            /\ r.dimsAtCall # << >>
            /\ r.dimsAtCall # r.dimsRead
            /\ r.dimsRead # <<width, height>>
            /\ r.out # FreshWith(r, r.dimsAtCall)
            /\ r.out # FreshWith(r, <<width, height>>)
            /\ r.out = FreshWith(r, r.dimsRead)

\* C17: in the application the grid has positive extents: whatever the zoom,
\* reset_zoom and reset_grid operations and the size of the surface, cell_size
\* stays within [16, 64], and the extents handed to VoxelRaycaster and to
\* set_dim, which are the extents of the traverser, are at least 1.
C17_GridPositiveInApplication ==
    /\ view.cell_size \in 16..64
    /\ lastDim.w >= 1 /\ lastDim.h >= 1
    /\ width > 0 /\ height > 0
    /\ view.grid_width >= 1 /\ view.grid_height >= 1

\* the zoom is at a limit and reset_grid has run on a surface with no pixels
C17_Witness ==
    /\ view.cell_size \in {16, 64}
    /\ view.width = 0 /\ view.height = 0
    /\ lastDim = [op |-> "set_dim", w |-> 1, h |-> 1]
    /\ width = 1 /\ height = 1

\* C19: drag and drag_ray are never both true, and no event moves both the
\* grid and a handle of the ray.
C19_NeverBothDrags ==
    /\ [](~(view.drag /\ view.drag_ray))
    /\ [][~(/\ <<view.x, view.y>>' # <<view.x, view.y>>
            /\ <<ray_view.x, ray_view.y, ray_view.dx, ray_view.dy>>'
                 # <<ray_view.x, ray_view.y, ray_view.dx, ray_view.dy>>)]_vars

\* a handle is being dragged and has been moved, on a grid that was panned
C19_Witness ==
    /\ view.drag_ray /\ ~view.drag
    /\ <<ray_view.x, ray_view.y, ray_view.dx, ray_view.dy>>
         # <<320, 200, 420, 300>>
    /\ <<view.x, view.y>> # <<0, 0>>

\* the direction of h is the direction of g times a scale k
ScaledDirection(g, h) ==
    \E k \in Scales :
        /\ gen[h].dirX = Scaled(k, gen[g].dirX)
        /\ gen[h].dirY = Scaled(k, gen[g].dirY)

\* C12: on a grid of positive extents, two casts from the same origin inside
\* the grid whose directions differ by a positive scale yield the same
\* sequence of cells.
C12_ScaleInvariant ==
    \A g \in Live, h \in Live :
        (/\ gen[g].pc = "done" /\ gen[h].pc = "done"
         /\ GridPositive /\ OriginInside(gen[g])
         /\ gen[g].ox = gen[h].ox /\ gen[g].oy = gen[h].oy
         /\ ScaledDirection(g, h))
        => gen[g].out = gen[h].out

==============================================================================
